---- MODULE Spec2Model ----
(***************************************************************************)
(* Model of MessageWsService (src/core/message-ws/message-ws.service.ts):  *)
(* the in-memory registry of connected websocket clients.                  *)
(*                                                                         *)
(* connectedClients is a JavaScript object used as a map.  Object.keys     *)
(* enumerates string keys in insertion order, and checkUserConnection      *)
(* stops at the first match, so the map is modelled as a sequence of       *)
(* entries in insertion order, never as an unordered function.             *)
(*                                                                         *)
(* registerClient is an async method: it suspends at                       *)
(* `await userRepository.findOneBy(...)` and its continuation runs later,  *)
(* so any other call may take effect between the two halves.               *)
(*                                                                         *)
(* The user table behind userRepository is not part of the service: the    *)
(* answer of findOneBy is any row with the requested id, null, or a         *)
(* rejection, so every history of writes to the table is covered.           *)
(***************************************************************************)
EXTENDS Integers, Sequences, FiniteSets, TLC

\* ------------------------------------------------------------------ bounds
\* Total number of registerClient calls that are ever started.
MaxCalls == 4

\* ------------------------------------------------------- finite input sets
\* Socket ids (client.id), assigned by the transport; one per connection.
Clients == {"A", "B", "C"}
\* User ids that callers may pass to registerClient.
UserIds == {"u1", "u2"}
\* Values of User.fullName.
Names == {"Ada Lovelace", "Ada King"}

\* findOneBy resolves to null when no row matches.
Null == [id |-> "null"]
\* A row of the user table, as far as the service reads it.
UserRows == [id : UserIds, isActive : BOOLEAN, fullName : Names]

\* Marker of "no registerClient call in flight for this socket".
NoCall == "none"

\* Messages of the errors the service can raise.
ErrUserNotFound == "User not found"
ErrUserInactive == "User is not active"
\* Rejection of findOneBy itself (the storage cannot be reached).
ErrDirectoryUnavailable == "findOneBy rejected"
\* connectedClients[clientId].user with connectedClients[clientId] undefined.
ErrSessionNotFound == "TypeError: Cannot read properties of undefined (reading 'user')"
NoError == "ok"

VARIABLES
    connectedClients,  \* sequence of [id, user]: the map, in key order
    pending,           \* socket id -> userId of the suspended registerClient, or NoCall
    disconnected,      \* sockets on which socket.disconnect() has been invoked
    closed,            \* socket ids whose disconnect notification ran removeClient
    nCalls,            \* registerClient calls started so far
    during,            \* history: socket id -> sockets whose entry for the same user was
                       \* stored, and not removed since, while this socket's
                       \* registerClient has been suspended
    last               \* the most recently completed call: error raised, disconnect() calls made

vars == <<connectedClients, pending, disconnected, closed, nCalls, during, last>>

\* ----------------------------------------------------------- map helpers
Range(s) == {s[i] : i \in 1..Len(s)}

\* Object.keys(this.connectedClients)
Keys(map) == [i \in 1..Len(map) |-> map[i].id]

KeySet(map) == {map[i].id : i \in 1..Len(map)}

\* this.connectedClients[clientId], for a key that is present
Entry(map, clientId) ==
    LET i == CHOOSE j \in 1..Len(map) : map[j].id = clientId IN map[i]

\* Variant of Put: user objects are shared per user id, so storing a user
\* replaces the user of every entry with that id.
Put_SharedUser(map, clientId, user) ==
    LET shared == [i \in 1..Len(map) |->
                      IF map[i].user.id = user.id \/ map[i].id = clientId
                      THEN [id |-> map[i].id, user |-> user] ELSE map[i]]
    IN  IF clientId \in KeySet(map)
        THEN shared
        ELSE Append(shared, [id |-> clientId, user |-> user])

\* this.connectedClients[client.id] = { socket: client, user }
\* (assigning an existing key keeps its place in the key order)
Put(map, clientId, user) ==
    IF clientId \in KeySet(map)
    THEN [i \in 1..Len(map) |->
            IF map[i].id = clientId THEN [id |-> clientId, user |-> user] ELSE map[i]]
    ELSE Append(map, [id |-> clientId, user |-> user])

\* Variants of Delete: removal by position with an unchecked indexOf (an
\* absent key removes the last entry), and removal of every entry of the
\* same user.
Delete_Splice(map, clientId) ==
    IF clientId \in KeySet(map)
    THEN SelectSeq(map, LAMBDA e : e.id # clientId)
    ELSE SubSeq(map, 1, Len(map) - 1)

Delete_ByUser(map, clientId) ==
    IF clientId \in KeySet(map)
    THEN SelectSeq(map, LAMBDA e : e.user.id # Entry(map, clientId).user.id)
    ELSE map

\* Variant of Delete: splice(index) without a count, which drops the key
\* and every key after it.
Delete_SpliceToEnd(map, clientId) ==
    IF clientId \in KeySet(map)
    THEN SubSeq(map, 1, (CHOOSE j \in 1..Len(map) : map[j].id = clientId) - 1)
    ELSE map

\* delete this.connectedClients[clientId]
Delete(map, clientId) == SelectSeq(map, LAMBDA e : e.id # clientId)

\* --------------------------------------------------------------- queries
\* getConnectedClients(): string[]
getConnectedClients == Keys(connectedClients)

\* Variant of getUserFullName: optional chaining (an absent session yields
\* undefined instead of a failure).
getUserFullName_Optional(clientId) ==
    IF clientId \in KeySet(connectedClients)
    THEN [error |-> NoError, value |-> Entry(connectedClients, clientId).user.fullName]
    ELSE [error |-> NoError, value |-> ""]

\* getUserFullName(clientId): the name, or the TypeError of reading
\* `.user` of undefined
getUserFullName(clientId) ==
    IF clientId \in KeySet(connectedClients)
    THEN [error |-> NoError, value |-> Entry(connectedClients, clientId).user.fullName]
    ELSE [error |-> ErrSessionNotFound, value |-> ""]

\* Variant of checkUserConnection: the socket id is compared with the user
\* id, so no entry ever matches.
checkUserConnection_WrongKey(map, user) ==
    LET hits == SelectSeq(map, LAMBDA e : e.id = user.id)
    IN  IF Len(hits) = 0 THEN <<>> ELSE <<hits[1].id>>

\* checkUserConnection(user): the sockets it calls disconnect() on, in order.
\* The loop breaks at the first entry of the same user.
checkUserConnection(map, user) ==
    LET hits == SelectSeq(map, LAMBDA e : e.user.id = user.id)
    IN  IF Len(hits) = 0 THEN <<>> ELSE <<hits[1].id>>

\* ------------------------------------------------------------------ Init
Init ==
    /\ connectedClients = <<>>
    /\ pending = [c \in Clients |-> NoCall]
    /\ disconnected = {}
    /\ closed = {}
    /\ nCalls = 0
    /\ during = [c \in Clients |-> {}]
    /\ last = [error |-> NoError, disconnects |-> <<>>]

\* --------------------------------------------------------------- actions
\* Variant of RegisterCall: a lock is held across the await, so a call
\* starts only when no other call is suspended.
RegisterCall_Serialized(c, u) ==
    /\ c \notin closed
    /\ \A d \in Clients : pending[d] = NoCall
    /\ nCalls < MaxCalls
    /\ pending' = [pending EXCEPT ![c] = u]
    /\ nCalls' = nCalls + 1
    /\ during' = [during EXCEPT ![c] = {}]
    /\ UNCHANGED <<connectedClients, disconnected, closed, last>>

\* registerClient(client, userId) up to the await: the lookup is issued and
\* the call suspends.
RegisterCall(c, u) ==
    /\ c \notin closed
    /\ pending[c] = NoCall
    /\ nCalls < MaxCalls
    /\ pending' = [pending EXCEPT ![c] = u]
    /\ nCalls' = nCalls + 1
    /\ during' = [during EXCEPT ![c] = {}]
    /\ UNCHANGED <<connectedClients, disconnected, closed, last>>

\* History of overlapping calls after socket c stored an entry for `user`:
\* c's own call is over, and c is noted with every call suspended for that user.
Overlap(c, user) ==
    [d \in Clients |->
        IF d = c THEN {}
        ELSE IF pending[d] = user.id THEN during[d] \cup {c}
        ELSE during[d]]

\* Variants of the continuation: the entry is stored before the checks, and
\* the isActive check is missing.
RegisterResume_InsertBeforeChecks(c, user) ==
    /\ pending' = [pending EXCEPT ![c] = NoCall]
    /\ connectedClients' = Put(connectedClients, c, user)
    /\ IF user = Null
       THEN /\ last' = [error |-> ErrUserNotFound, disconnects |-> <<>>]
            /\ during' = [during EXCEPT ![c] = {}]
            /\ UNCHANGED disconnected
       ELSE IF ~user.isActive
       THEN /\ last' = [error |-> ErrUserInactive, disconnects |-> <<>>]
            /\ during' = [during EXCEPT ![c] = {}]
            /\ UNCHANGED disconnected
       ELSE LET victims == checkUserConnection(connectedClients, user) IN
            /\ disconnected' = disconnected \cup Range(victims)
            /\ last' = [error |-> NoError, disconnects |-> victims]
            /\ during' = Overlap(c, user)
    /\ UNCHANGED <<closed, nCalls>>

RegisterResume_NoActiveCheck(c, user) ==
    /\ pending' = [pending EXCEPT ![c] = NoCall]
    /\ IF user = Null
       THEN /\ last' = [error |-> ErrUserNotFound, disconnects |-> <<>>]
            /\ during' = [during EXCEPT ![c] = {}]
            /\ UNCHANGED <<connectedClients, disconnected>>
       ELSE LET victims == checkUserConnection(connectedClients, user) IN
            /\ disconnected' = disconnected \cup Range(victims)
            /\ connectedClients' = Put(connectedClients, c, user)
            /\ last' = [error |-> NoError, disconnects |-> victims]
            /\ during' = Overlap(c, user)
    /\ UNCHANGED <<closed, nCalls>>

\* Variant of the continuation: the entry of the evicted socket is deleted
\* together with the disconnect().
RegisterResume_DeleteEvicted(c, user) ==
    /\ pending' = [pending EXCEPT ![c] = NoCall]
    /\ IF user = Null
       THEN /\ last' = [error |-> ErrUserNotFound, disconnects |-> <<>>]
            /\ during' = [during EXCEPT ![c] = {}]
            /\ UNCHANGED <<connectedClients, disconnected>>
       ELSE IF ~user.isActive
       THEN /\ last' = [error |-> ErrUserInactive, disconnects |-> <<>>]
            /\ during' = [during EXCEPT ![c] = {}]
            /\ UNCHANGED <<connectedClients, disconnected>>
       ELSE LET victims == checkUserConnection(connectedClients, user)
                kept == SelectSeq(connectedClients, LAMBDA e : e.id \notin Range(victims))
            IN
            /\ disconnected' = disconnected \cup Range(victims)
            /\ connectedClients' = Put(kept, c, user)
            /\ last' = [error |-> NoError, disconnects |-> victims]
            /\ during' = Overlap(c, user)
    /\ UNCHANGED <<closed, nCalls>>

\* Variant of the continuation: checkUserConnection runs before the
\* isActive check.
RegisterResume_EvictBeforeActiveCheck(c, user) ==
    /\ pending' = [pending EXCEPT ![c] = NoCall]
    /\ IF user = Null
       THEN /\ last' = [error |-> ErrUserNotFound, disconnects |-> <<>>]
            /\ during' = [during EXCEPT ![c] = {}]
            /\ UNCHANGED <<connectedClients, disconnected>>
       ELSE LET victims == checkUserConnection(connectedClients, user) IN
            /\ disconnected' = disconnected \cup Range(victims)
            /\ IF ~user.isActive
               THEN /\ last' = [error |-> ErrUserInactive, disconnects |-> victims]
                    /\ during' = [during EXCEPT ![c] = {}]
                    /\ UNCHANGED connectedClients
               ELSE /\ connectedClients' = Put(connectedClients, c, user)
                    /\ last' = [error |-> NoError, disconnects |-> victims]
                    /\ during' = Overlap(c, user)
    /\ UNCHANGED <<closed, nCalls>>

\* The continuation of registerClient after findOneBy resolved with `user`.
RegisterResume(c, user) ==
    /\ pending' = [pending EXCEPT ![c] = NoCall]
    /\ IF user = Null
       THEN /\ last' = [error |-> ErrUserNotFound, disconnects |-> <<>>]
            /\ during' = [during EXCEPT ![c] = {}]
            /\ UNCHANGED <<connectedClients, disconnected>>
       ELSE IF ~user.isActive
       THEN /\ last' = [error |-> ErrUserInactive, disconnects |-> <<>>]
            /\ during' = [during EXCEPT ![c] = {}]
            /\ UNCHANGED <<connectedClients, disconnected>>
       ELSE LET victims == checkUserConnection(connectedClients, user) IN
            /\ disconnected' = disconnected \cup Range(victims)
            /\ connectedClients' = Put(connectedClients, c, user)
            /\ last' = [error |-> NoError, disconnects |-> victims]
            /\ during' = Overlap(c, user)
    /\ UNCHANGED <<closed, nCalls>>

\* What findOneBy({ id: userId }) can resolve to.
LookupResults(userId) == {Null} \cup {row \in UserRows : row.id = userId}

\* findOneBy resolves with a row (or null) and the continuation runs.
RegisterLookupDone(c) ==
    /\ pending[c] # NoCall
    /\ \E user \in LookupResults(pending[c]) : RegisterResume(c, user)

\* Variant of the rejected lookup: the failure path also drops the socket's
\* own entry.
RegisterLookupFails_Cleanup(c) ==
    /\ pending[c] # NoCall
    /\ pending' = [pending EXCEPT ![c] = NoCall]
    /\ connectedClients' = Delete(connectedClients, c)
    /\ last' = [error |-> ErrDirectoryUnavailable, disconnects |-> <<>>]
    /\ during' = [during EXCEPT ![c] = {}]
    /\ UNCHANGED <<disconnected, closed, nCalls>>

\* findOneBy rejects: the await throws and registerClient rejects with it.
RegisterLookupFails(c) ==
    /\ pending[c] # NoCall
    /\ pending' = [pending EXCEPT ![c] = NoCall]
    /\ last' = [error |-> ErrDirectoryUnavailable, disconnects |-> <<>>]
    /\ during' = [during EXCEPT ![c] = {}]
    /\ UNCHANGED <<connectedClients, disconnected, closed, nCalls>>

\* removeClient(clientId), run by the transport's disconnect notification.
RemoveClient(c) ==
    /\ connectedClients' = Delete(connectedClients, c)
    /\ closed' = closed \cup {c}
    /\ last' = [error |-> NoError, disconnects |-> <<>>]
    /\ during' = [d \in Clients |-> during[d] \ {c}]
    /\ UNCHANGED <<pending, disconnected, nCalls>>

Next ==
    \/ \E c \in Clients, u \in UserIds : RegisterCall(c, u)
    \/ \E c \in Clients : RegisterLookupDone(c)
    \/ \E c \in Clients : RegisterLookupFails(c)
    \/ \E c \in Clients : RemoveClient(c)

Spec == Init /\ [][Next]_vars

\* ------------------------------------------------------ shorthand
\* The entries of the map that belong to user id u.
EntriesOf(map, u) == {map[i].id : i \in {j \in 1..Len(map) : map[j].user.id = u}}

\* ------------------------------------------------------------- C1
\* C1: in every reachable state no two entries of the connected-clients
\* map have the same user.id.
C1_UniqueUserPerEntry ==
    \A i, j \in 1..Len(connectedClients) :
        i # j => connectedClients[i].user.id # connectedClients[j].user.id

\* ------------------------------------------------------------- C2
\* C2: when the map holds exactly one entry of active user u, that of
\* connection a (the state register(a, u) leaves from a map without u), a
\* completing register(b, u) of another connection b invokes disconnect()
\* exactly once, on a and on no other socket, and b's id is then among the
\* connected clients.
C2_SecondRegisterEvictsFirst ==
    [][\A a, b \in Clients : \A user \in UserRows :
          ( /\ a # b
            /\ user.isActive
            /\ pending[b] = user.id
            /\ EntriesOf(connectedClients, user.id) = {a}
            /\ RegisterResume(b, user) )
          => /\ last'.error = NoError
             /\ last'.disconnects = <<a>>
             /\ disconnected' = disconnected \cup {a}
             /\ b \in Range(getConnectedClients') ]_vars

C2_Witness ==
    /\ getConnectedClients = <<"A", "B">>
    /\ connectedClients[1].user.id = "u1"
    /\ connectedClients[2].user.id = "u1"
    /\ last = [error |-> NoError, disconnects |-> <<"A">>]
    /\ disconnected = {"A"}
    /\ nCalls = 2

\* ------------------------------------------------------------- C3
\* C3: a registerClient whose findOneBy finds no row raises
\* "User not found", and neither half of the call (up to the await, and the
\* continuation) changes the map.
C3_UnknownUserRejected ==
    [][\A c \in Clients :
          /\ (\E u \in UserIds : RegisterCall(c, u))
                => connectedClients' = connectedClients
          /\ (pending[c] # NoCall /\ RegisterResume(c, Null))
                => /\ last'.error = ErrUserNotFound
                   /\ connectedClients' = connectedClients ]_vars

C3_Witness ==
    /\ last.error = ErrUserNotFound
    /\ getConnectedClients = <<"A">>
    /\ nCalls = 2

\* ------------------------------------------------------------- C4
\* C4: a registerClient whose user has a row marked inactive raises
\* "User is not active", and neither half of the call changes the map.
C4_InactiveUserRejected ==
    [][\A c \in Clients : \A user \in UserRows :
          /\ (\E u \in UserIds : RegisterCall(c, u))
                => connectedClients' = connectedClients
          /\ (pending[c] = user.id /\ ~user.isActive /\ RegisterResume(c, user))
                => /\ last'.error = ErrUserInactive
                   /\ connectedClients' = connectedClients ]_vars

C4_Witness ==
    /\ last.error = ErrUserInactive
    /\ getConnectedClients = <<"A">>
    /\ nCalls = 2

\* ------------------------------------------------------------- C5
\* C5: getUserFullName(clientId) fails whenever the map holds no record for
\* clientId: before and after every step for every id that is not a key,
\* and in particular right after removeClient(clientId).
C5_NoRecordNoName ==
    [][\A c \in Clients :
          /\ c \notin Range(getConnectedClients)
                => getUserFullName(c).error = ErrSessionNotFound
          /\ c \notin Range(getConnectedClients')
                => getUserFullName(c)'.error = ErrSessionNotFound
          /\ RemoveClient(c) => getUserFullName(c)'.error = ErrSessionNotFound ]_vars

\* A was registered (it has been evicted since), then removed; B never was.
C5_Witness ==
    /\ "A" \in disconnected
    /\ "A" \in closed
    /\ getConnectedClients = <<"C">>
    /\ nCalls = 2
    /\ getUserFullName("A").error = ErrSessionNotFound
    /\ getUserFullName("B").error = ErrSessionNotFound

\* ------------------------------------------------------------- C6
\* C6: when registerClient completes for a session, getUserFullName of that
\* session is the fullName of the row findOneBy returned; every later step
\* that is neither removeClient of that session nor a successful
\* registerClient of it leaves that answer unchanged, also a step in which
\* findOneBy returns the same user under another name.
C6_NameIsSnapshot ==
    [][\A c \in Clients :
          /\ \A user \in UserRows :
                (pending[c] = user.id /\ user.isActive /\ RegisterResume(c, user))
                   => getUserFullName(c)' = [error |-> NoError, value |-> user.fullName]
          /\ ( /\ c \in KeySet(connectedClients)
               /\ ~RemoveClient(c)
               /\ ~(\E user \in UserRows :
                       pending[c] = user.id /\ user.isActive /\ RegisterResume(c, user)) )
             => getUserFullName(c)' = getUserFullName(c) ]_vars

\* A registered as u1 when the table said "Ada Lovelace"; the table has
\* since answered "Ada King" for u1 (to B's registration).
C6_Witness ==
    /\ getConnectedClients = <<"A", "B">>
    /\ connectedClients[1].user.id = "u1"
    /\ connectedClients[2].user.id = "u1"
    /\ connectedClients[2].user.fullName = "Ada King"
    /\ getUserFullName("A") = [error |-> NoError, value |-> "Ada Lovelace"]

\* ------------------------------------------------------------- C7
\* C7: removeClient(clientId) for an id that is not a key of the map raises
\* nothing and leaves the map as it was.
C7_RemoveAbsentIsNoOp ==
    [][\A c \in Clients :
          (c \notin KeySet(connectedClients) /\ RemoveClient(c))
             => /\ last'.error = NoError
                /\ connectedClients' = connectedClients ]_vars

\* B's only registerClient is still suspended when B's disconnect is handled,
\* while A is registered.
C7_Witness ==
    /\ getConnectedClients = <<"A">>
    /\ closed = {"B"}
    /\ pending["B"] # NoCall
    /\ pending["A"] = NoCall
    /\ pending["C"] = NoCall
    /\ nCalls = 2
    /\ last = [error |-> NoError, disconnects |-> <<>>]

\* ------------------------------------------------------------- C8
\* C8: from the map that register(a, u) and register(b, u) build from the
\* empty map (keys a, b in that order, both of user u, a evicted),
\* removeClient(a) leaves getConnectedClients() = [b].
C8_ScenarioLeavesOnlyB ==
    [][\A a, b \in Clients :
          ( /\ a # b
            /\ getConnectedClients = <<a, b>>
            /\ connectedClients[1].user.id = connectedClients[2].user.id
            /\ a \in disconnected
            /\ RemoveClient(a) )
          => getConnectedClients' = <<b>> ]_vars

C8_Witness ==
    /\ getConnectedClients = <<"B">>
    /\ connectedClients[1].user.id = "u1"
    /\ disconnected = {"A"}
    /\ closed = {"A"}
    /\ nCalls = 2
    /\ pending = [c \in Clients |-> NoCall]

\* ------------------------------------------------------------- C9
\* C9: a registerClient whose findOneBy rejects fails with that rejection
\* and leaves no trace: neither half of the call changes the map, the set of
\* disconnected sockets or any other socket's suspended call, and its own
\* slot is free again afterwards.
C9_FailedLookupLeavesNoTrace ==
    [][\A c \in Clients :
          /\ (\E u \in UserIds : RegisterCall(c, u))
                => /\ UNCHANGED <<connectedClients, disconnected, closed>>
                   /\ \A d \in Clients \ {c} : pending'[d] = pending[d]
          /\ RegisterLookupFails(c)
                => /\ last' = [error |-> ErrDirectoryUnavailable, disconnects |-> <<>>]
                   /\ UNCHANGED <<connectedClients, disconnected, closed>>
                   /\ \A d \in Clients \ {c} : pending'[d] = pending[d]
                   /\ pending'[c] = NoCall ]_vars

\* The failed call was a second registerClient of a registered socket, with
\* another socket's call still suspended.
C9_Witness ==
    /\ last.error = ErrDirectoryUnavailable
    /\ getConnectedClients = <<"A">>
    /\ pending["A"] = NoCall
    /\ pending["B"] # NoCall
    /\ pending["C"] = NoCall
    /\ nCalls = 3
    /\ closed = {}

\* ------------------------------------------------------------ C10
\* C10: once removeClient has run for a session id (its connection closed),
\* that id is not among the connected clients.
C10_ClosedSessionAbsent ==
    \A c \in closed : c \notin Range(getConnectedClients)

\* ------------------------------------------------------------ C11
\* C11: of two registrations of one user that are suspended at the same
\* time, the one whose continuation runs second finds the entry the first
\* one stored and invokes disconnect() on it.
C11_SecondSeesFirst ==
    [][\A b, c \in Clients : \A user \in UserRows :
          ( /\ b # c
            /\ user.isActive
            /\ pending[c] = user.id
            /\ b \in during[c]
            /\ b \in EntriesOf(connectedClients, user.id)
            /\ RegisterResume(c, user) )
          => b \in Range(last'.disconnects) ]_vars

\* ------------------------------------------------------------ C12
\* C12: once every socket on which disconnect() was invoked has had its
\* disconnect notification handled and no registerClient is suspended, no
\* two entries of the map share a user.id.  (From such a state only a
\* further registerClient or a disconnect the client itself starts can
\* change the map, so a duplicate present there is never resolved.)  Only
\* states whose entries all belong to open connections are considered, so
\* every notification counted here was handled after its entry was stored.
C12_QuiescentUnique ==
    ( /\ \A c \in Clients : pending[c] = NoCall
      /\ disconnected \subseteq closed
      /\ KeySet(connectedClients) \cap closed = {} )
    => \A u \in UserIds : Cardinality(EntriesOf(connectedClients, u)) <= 1

\* ------------------------------------------------------------ C13
\* C13: a registerClient that succeeds removes no entry: every other key
\* keeps its place and its record, the registering socket's key holds the
\* resolved user, there is no further key, and a socket the call
\* disconnected is still among the connected clients.
C13_RegisterOnlyAdds ==
    [][\A c \in Clients : \A user \in UserRows :
          (user.isActive /\ pending[c] = user.id /\ RegisterResume(c, user))
          => /\ KeySet(connectedClients') = KeySet(connectedClients) \cup {c}
             /\ \A i \in 1..Len(connectedClients) :
                   connectedClients[i].id # c
                      => connectedClients'[i] = connectedClients[i]
             /\ Entry(connectedClients', c).user = user
             /\ Len(connectedClients') =
                   Len(connectedClients) + (IF c \in KeySet(connectedClients) THEN 0 ELSE 1)
             /\ Range(last'.disconnects) \subseteq Range(getConnectedClients') ]_vars

\* B's registration evicted A, and A is still listed.
C13_Witness ==
    /\ getConnectedClients = <<"A", "B">>
    /\ Entry(connectedClients, "A").user.id = Entry(connectedClients, "B").user.id
    /\ last.disconnects = <<"A">>
    /\ "A" \notin closed
    /\ nCalls = 2
    /\ pending = [c \in Clients |-> NoCall]

\* ------------------------------------------------------------ C14
\* C14: removeClient(b) removes b's key and nothing else: the other keys
\* keep their order and their records.  And for another socket a whose
\* registerClient is suspended, storing a's entry and deleting b's key give
\* the same map in either order.
C14_RemoveIsLocalAndCommutes ==
    /\ [][\A b \in Clients :
             RemoveClient(b)
                => /\ getConnectedClients' =
                         SelectSeq(getConnectedClients, LAMBDA k : k # b)
                   /\ \A d \in KeySet(connectedClients') :
                         Entry(connectedClients', d) = Entry(connectedClients, d) ]_vars
    /\ [](\A a \in Clients : \A b \in Clients \ {a} :
             pending[a] # NoCall
                => \A user \in LookupResults(pending[a]) \ {Null} :
                      user.isActive
                         => Put(Delete(connectedClients, b), a, user)
                               = Delete(Put(connectedClients, a, user), b))

\* B, evicted by C, is removed while A's registerClient is suspended.
C14_Witness ==
    /\ getConnectedClients = <<"C">>
    /\ closed = {"B"}
    /\ disconnected = {"B"}
    /\ pending["A"] # NoCall
    /\ last = [error |-> NoError, disconnects |-> <<>>]

\* ------------------------------------------------------------ C15
\* C15: while a registerClient is suspended at its lookup, every call for
\* another socket stays possible: removeClient, the continuation or the
\* rejection of that socket's own suspended registerClient, a new
\* registerClient (as long as the socket is open and calls are left), and
\* the two queries, which answer for a registered socket.
C15_OthersNotBlocked ==
    \A c \in Clients :
        pending[c] # NoCall
        => \A d \in Clients \ {c} :
              /\ ENABLED RemoveClient(d)
              /\ pending[d] # NoCall
                    => (ENABLED RegisterLookupDone(d)) /\ (ENABLED RegisterLookupFails(d))
              /\ (pending[d] = NoCall /\ d \notin closed /\ nCalls < MaxCalls)
                    => \A u \in UserIds : ENABLED RegisterCall(d, u)
              /\ d \in Range(getConnectedClients) => getUserFullName(d).error = NoError

\* While A's call is suspended B's entry was stored and C's disconnect was
\* handled.
C15_Witness ==
    /\ pending["A"] # NoCall
    /\ during["A"] = {"B"}
    /\ getConnectedClients = <<"B">>
    /\ closed = {"C"}
    /\ nCalls = 2

\* ------------------------------------------------------------ C16
\* C16: in every reachable state each user has at most one entry whose
\* socket has never had disconnect() invoked on it.
C16_OneLiveEntryPerUser ==
    \A u \in UserIds :
        Cardinality(EntriesOf(connectedClients, u) \ disconnected) <= 1

\* ------------------------------------------------------------ C17
\* C17: a registerClient that fails (no row, inactive row, rejected lookup)
\* invokes disconnect() on no socket.
C17_FailedRegisterEvictsNobody ==
    [][\A c \in Clients :
          ( /\ pending[c] # NoCall
            /\ \/ RegisterLookupFails(c)
               \/ \E user \in LookupResults(pending[c]) :
                     (user = Null \/ ~user.isActive) /\ RegisterResume(c, user) )
          => /\ last'.error # NoError
             /\ last'.disconnects = <<>>
             /\ disconnected' = disconnected ]_vars

\* A and B are registered as the two users; a third registerClient, for one
\* of these users, failed on the inactive row and evicted neither.
C17_Witness ==
    /\ last = [error |-> ErrUserInactive, disconnects |-> <<>>]
    /\ getConnectedClients = <<"A", "B">>
    /\ Entry(connectedClients, "A").user.id # Entry(connectedClients, "B").user.id
    /\ disconnected = {}
    /\ nCalls = 3
    /\ pending = [c \in Clients |-> NoCall]

\* ------------------------------------------------------------ C18
\* C18: the socket a registerClient call invokes disconnect() on is never
\* the socket passed to that call.
C18_NeverEvictsItself ==
    [][\A c \in Clients : \A user \in UserRows :
          (pending[c] = user.id /\ RegisterResume(c, user))
          => c \notin Range(last'.disconnects) ]_vars

====
